---------------------------- MODULE Spec2Model ----------------------------
(***************************************************************************)
(* Model of cron-job-server (src/src/index.js): an express server that     *)
(* keeps a JSON file of jobs (data/jobs.json), one node-cron task per job  *)
(* in the process-wide Map activeJobs, and POSTs to the job's url at each  *)
(* fire.                                                                   *)
(*                                                                         *)
(* JavaScript runs one callback at a time, so every action below is one    *)
(* run-to-completion segment of a handler: from the resumption after an    *)
(* await to the next await (or the response).  A file read or write takes  *)
(* effect in the segment that ends it; the segment before it only issues   *)
(* it and touches no shared state, so the two are one action.              *)
(*                                                                         *)
(* A JavaScript object is a function from its keys to values; the jobs     *)
(* object, whose key order Object.entries observes, is a sequence of       *)
(* [id, job] entries in insertion order.                                   *)
(***************************************************************************)
EXTENDS Naturals, Integers, Sequences, FiniteSets, TLC

\* ----------------------------------------------------------------- bounds
MaxRequests == 2        \* POST and DELETE requests served in a run of SpecAPI
MaxFiringRequests == 1  \* POST and DELETE requests served in a run of Spec
MaxFires == 2           \* fires (deliveries issued) in a run of Spec
MaxReadRequests == 1    \* POST and DELETE requests served in a run of SpecRead

\* ----------------------------------------------------------------- values
Undefined == "<undefined>"

Ids == {"a", "b"}
Handlers == {1, 2}

GoodUrls == {"http://u1/hook", "http://u2/hook"}
BadUrl == "not a url"

EveryMinute == "* * * * *"
EveryFive == "*/5 * * * *"
BadSchedule == "99 * * * *"

\* cron.validate(schedule): node-cron's validator, on the expressions used here
validate(schedule) == schedule \in {EveryMinute, EveryFive}

\* new URL(url) does not throw
URLok(url) == url \in GoodUrls

\* JavaScript truthiness of a string-or-undefined value
Truthy(v) == v # Undefined /\ v # ""

\* property access o[k] / o.k
Get(o, k) == IF k \in DOMAIN o THEN o[k] ELSE Undefined

\* --------------------------------------------------------- the jobs object
HasKey(js, id) == \E i \in 1..Len(js) : js[i].id = id

Lookup(js, id) ==
  IF HasKey(js, id) THEN (CHOOSE e \in {js[i] : i \in 1..Len(js)} : e.id = id).job
  ELSE Undefined

\* jobs[id] = job : replaces in place, or appends a new key
SetKey(js, id, job) ==
  IF HasKey(js, id)
  THEN [i \in 1..Len(js) |-> IF js[i].id = id THEN [id |-> id, job |-> job] ELSE js[i]]
  ELSE Append(js, [id |-> id, job |-> job])

\* delete jobs[id]
DeleteKey(js, id) == SelectSeq(js, LAMBDA e : e.id # id)

KeysOf(js) == {js[i].id : i \in 1..Len(js)}

\* JSON.stringify followed by JSON.parse: keys whose value is undefined are lost
DropUndefined(o) == [k \in {x \in DOMAIN o : o[x] # Undefined} |-> o[k]]

Stringify(js) == [i \in 1..Len(js) |-> [id |-> js[i].id, job |-> DropUndefined(js[i].job)]]

\* the record POST /jobs stores
NewRecord(url, schedule, cronSecret) ==
  [url |-> url, schedule |-> schedule, cronSecret |-> cronSecret,
   createdAt |-> "t", createdBy |-> "JIMEX-X"]

\* ------------------------------------------------------------------ inputs
Body(id, url, schedule, cronSecret) ==
  [id |-> id, url |-> url, schedule |-> schedule, cronSecret |-> cronSecret]

ValidBodies ==
  {Body("a", "http://u1/hook", EveryMinute, Undefined),
   Body("a", "http://u2/hook", EveryFive, "k1"),
   Body("b", "http://u1/hook", EveryFive, "")}

InvalidBodies ==
  {Body(Undefined, "http://u1/hook", EveryMinute, "k1"),
   Body("a", Undefined, EveryMinute, "k1"),
   Body("a", "http://u1/hook", Undefined, "k1"),
   Body("a", "http://u1/hook", BadSchedule, "k1"),
   Body("a", BadUrl, EveryMinute, "k1")}

Bodies == ValidBodies \cup InvalidBodies

\* the x-api-key header of a request: absent, or one of two strings
ApiKeys == {Undefined, "key1", "key2"}

\* process.env.API_KEY: not set, or set
ConfiguredKeys == {Undefined, "key1"}

\* what data/jobs.json may hold when the process starts: nothing, what earlier
\* runs of the server stored, or a record whose schedule the scheduler rejects
\* (the file is plain JSON on disk and is not validated when read)
StoredJob(url, schedule, cronSecret) == DropUndefined(NewRecord(url, schedule, cronSecret))

InitFiles ==
  {<< >>,
   <<[id |-> "a", job |-> StoredJob("http://u1/hook", EveryMinute, "k1")]>>,
   <<[id |-> "a", job |-> StoredJob("http://u1/hook", BadSchedule, Undefined)],
     [id |-> "b", job |-> StoredJob("http://u2/hook", EveryFive, Undefined)]>>}

\* ------------------------------------------------------------------- state
VARIABLES
  file,        \* parsed content of data/jobs.json
  timers,      \* every cron task created so far; a task's handle is its index
  activeJobs,  \* the Map activeJobs: id -> handle, 0 when the key is absent
  pc,          \* per handler: where its request is
  req,         \* per handler: the request it serves
  jobs,        \* per handler: its local `jobs` object
  resp,        \* the response sent by the step just taken, NoResp when it sent none
  initpc,      \* where initializeJobs is
  initjobs,    \* initializeJobs' local `jobs`
  inflight,    \* deliveries whose fetch has not settled
  reqLeft,     \* POST and DELETE requests the run may still accept
  firesLeft,   \* fires the run may still take
  uncaught,    \* an error left a fire callback
  afterFail,   \* the task whose delivery failed last, and whether it fired since
  delAcked,    \* ids whose DELETE answered 200 with no POST for the id received since
  ioFailed,    \* a read or a write of the file has failed
  API_KEY      \* process.env.API_KEY

vars == <<file, timers, activeJobs, pc, req, jobs, resp, initpc, initjobs,
          inflight, reqLeft, firesLeft, uncaught, afterFail, delAcked, ioFailed,
          API_KEY>>

NoReq == [kind |-> "none"]
NoResp == [status |-> 0, req |-> NoReq]
NoFail == [timer |-> 0, fired |-> FALSE]

InitWith(requests, fires) ==
  /\ file \in InitFiles
  /\ timers = << >>
  /\ activeJobs = [id \in Ids |-> 0]
  /\ pc = [h \in Handlers |-> "idle"]
  /\ req = [h \in Handlers |-> NoReq]
  /\ jobs = [h \in Handlers |-> << >>]
  /\ resp = NoResp
  /\ initpc = "start"
  /\ initjobs = << >>
  /\ inflight = {}
  /\ reqLeft = requests
  /\ firesLeft = fires
  /\ uncaught = FALSE
  /\ afterFail = NoFail
  /\ delAcked = {}
  /\ ioFailed = FALSE
  /\ API_KEY \in ConfiguredKeys

\* the process has started listening; initializeJobs has not run yet
Init == InitWith(MaxFiringRequests, MaxFires)

\* the same, for runs in which no task reaches a fire time
InitAPI == InitWith(MaxRequests, 0)

InitRead == InitWith(MaxReadRequests, 0)

\* ------------------------------------------------------- loadJobs, saveJobs
\* loadJobs: the parsed file, or {} when readFile or JSON.parse throws
loadJobs(readOk) == IF readOk THEN file ELSE << >>

\* ------------------------------------------------------------------ startJob
\* a startJob and a DELETE that leave the existing task running
StopNothing(tm, aj, id) == tm

\* activeJobs.get(id).stop(), when the key is there
StopExisting(tm, aj, id) ==
  IF aj[id] # 0 THEN [tm EXCEPT ![aj[id]].stopped = TRUE] ELSE tm

NewTimer(id, url, schedule, cronSecret) ==
  [id |-> id, url |-> url, schedule |-> schedule, cronSecret |-> cronSecret,
   stopped |-> FALSE]

\* a startJob that registers the new task first and then stops what the Map holds
startJobSetFirst(tm, aj, id, url, schedule, cronSecret) ==
  IF validate(schedule)
  THEN [timers |-> Append(tm, [NewTimer(id, url, schedule, cronSecret)
                               EXCEPT !.stopped = (aj[id] # 0)]),
        activeJobs |-> [aj EXCEPT ![id] = Len(tm) + 1],
        threw |-> FALSE]
  ELSE [timers |-> tm, activeJobs |-> aj, threw |-> TRUE]

\* startJob(id, url, schedule, cronSecret) on timers tm and Map aj.
\* cron.schedule throws on an expression its validator rejects; the stop of the
\* existing task has happened by then and activeJobs.set has not.
startJob(tm, aj, id, url, schedule, cronSecret) ==
  LET stoppedOld == StopExisting(tm, aj, id) IN
  IF validate(schedule)
  THEN [timers |-> Append(stoppedOld, NewTimer(id, url, schedule, cronSecret)),
        activeJobs |-> [aj EXCEPT ![id] = Len(tm) + 1],
        threw |-> FALSE]
  ELSE [timers |-> stoppedOld, activeJobs |-> aj, threw |-> TRUE]

\* ------------------------------------------------------------ initializeJobs
\* const jobs = await loadJobs()
InitLoad ==
  /\ initpc = "start"
  /\ \E readOk \in BOOLEAN :
       /\ initjobs' = loadJobs(readOk)
       /\ ioFailed' = (ioFailed \/ ~readOk)
  /\ initpc' = "loaded"
  /\ resp' = NoResp
  /\ UNCHANGED <<file, timers, activeJobs, pc, req, jobs, inflight, reqLeft,
                 firesLeft, uncaught, afterFail, delAcked, API_KEY>>

\* Object.entries(jobs).forEach(startJob ...): in key order, ended by the first throw
RECURSIVE StartAll(_, _, _, _)
StartAll(js, i, tm, aj) ==
  IF i > Len(js) THEN [timers |-> tm, activeJobs |-> aj, threw |-> FALSE]
  ELSE LET job == js[i].job
           r == startJob(tm, aj, js[i].id, Get(job, "url"), Get(job, "schedule"),
                         Get(job, "cronSecret"))
       IN IF r.threw THEN r ELSE StartAll(js, i + 1, r.timers, r.activeJobs)

\* the forEach runs; a throw rejects initializeJobs, which nothing catches
InitStart ==
  /\ initpc = "loaded"
  /\ LET r == StartAll(initjobs, 1, timers, activeJobs) IN
       /\ timers' = r.timers
       /\ activeJobs' = r.activeJobs
       /\ initpc' = IF r.threw THEN "failed" ELSE "done"
  /\ initjobs' = << >>
  /\ resp' = NoResp
  /\ UNCHANGED <<file, pc, req, jobs, inflight, reqLeft, firesLeft, uncaught, afterFail,
                 delAcked,
                 ioFailed, API_KEY>>

\* ---------------------------------------------------------- apiKeyMiddleware
\* a middleware that only compares the header with the configured key
apiKeyMiddlewareCompareOnly(apiKey) == apiKey = API_KEY

\* next() is called: the x-api-key header is there and equals process.env.API_KEY
apiKeyMiddleware(apiKey) == Truthy(apiKey) /\ apiKey = API_KEY

\* any request under /jobs whose key the middleware refuses: 401, nothing else
Unauthorized ==
  \E kind \in {"POST", "GET", "DELETE"}, apiKey \in ApiKeys :
    /\ ~apiKeyMiddleware(apiKey)
    /\ resp' = [status |-> 401, req |-> [kind |-> kind, apiKey |-> apiKey],
                error |-> "Unauthorized - Invalid API Key"]
    /\ UNCHANGED <<file, timers, activeJobs, pc, req, jobs, initpc, initjobs,
                   inflight, reqLeft, firesLeft, uncaught, afterFail, delAcked,
                   ioFailed, API_KEY>>

\* ------------------------------------------------------------- POST /jobs
\* a handler that does not validate the schedule
PostValidNoCron(body) ==
  /\ Truthy(body.id) /\ Truthy(body.url) /\ Truthy(body.schedule)
  /\ URLok(body.url)

\* the three validations of the handler
PostValid(body) ==
  /\ Truthy(body.id) /\ Truthy(body.url) /\ Truthy(body.schedule)
  /\ validate(body.schedule)
  /\ URLok(body.url)

\* the error of the first validation that fails, in the handler's order
PostError(body) ==
  IF ~(Truthy(body.id) /\ Truthy(body.url) /\ Truthy(body.schedule))
  THEN "Missing required fields"
  ELSE IF ~validate(body.schedule) THEN "Invalid cron schedule"
  ELSE "Invalid URL format"

\* a request arrives; it is served in the first free handler slot
Accept(h) ==
  /\ pc[h] = "idle"
  /\ \A g \in Handlers : g < h => pc[g] # "idle"
  /\ reqLeft > 0
  /\ reqLeft' = reqLeft - 1

Finish(h, response) ==
  /\ resp' = response
  /\ pc' = [pc EXCEPT ![h] = "idle"]
  /\ req' = [req EXCEPT ![h] = NoReq]
  /\ jobs' = [jobs EXCEPT ![h] = << >>]

\* a request that fails validation: 400, nothing else
PostReject ==
  \E body \in Bodies, apiKey \in ApiKeys :
    /\ apiKeyMiddleware(apiKey)
    /\ ~PostValid(body)
    /\ resp' = [status |-> 400,
                req |-> [kind |-> "POST", body |-> body, apiKey |-> apiKey],
                error |-> PostError(body)]
    /\ UNCHANGED <<file, timers, activeJobs, pc, req, jobs, initpc, initjobs,
                   inflight, reqLeft, firesLeft, uncaught, afterFail, delAcked,
                   ioFailed, API_KEY>>

\* a valid request: jobs = await loadJobs(); jobs[id] = {...}; saveJobs issued
PostLoad(h) ==
  /\ Accept(h)
  /\ \E body \in Bodies, readOk \in BOOLEAN, apiKey \in ApiKeys :
      /\ apiKeyMiddleware(apiKey)
      /\ PostValid(body)
      /\ req' = [req EXCEPT ![h] = [kind |-> "POST", body |-> body, apiKey |-> apiKey,
                                    readOk |-> readOk]]
      /\ jobs' = [jobs EXCEPT ![h] =
                    SetKey(loadJobs(readOk), body.id,
                           NewRecord(body.url, body.schedule, body.cronSecret))]
      /\ pc' = [pc EXCEPT ![h] = "post_save"]
      /\ resp' = NoResp
      /\ ioFailed' = (ioFailed \/ ~readOk)
      /\ delAcked' = delAcked \ {body.id}
      /\ UNCHANGED <<file, timers, activeJobs, initpc, initjobs, inflight, firesLeft,
                     uncaught, afterFail, API_KEY>>

\* a POST that schedules the job although its write failed
PostSaveThenStart(h) ==
  /\ pc[h] = "post_save"
  /\ \E writeOk \in BOOLEAN :
       /\ ioFailed' = (ioFailed \/ ~writeOk)
       /\ IF writeOk
          THEN /\ file' = Stringify(jobs[h])
               /\ pc' = [pc EXCEPT ![h] = "post_start"]
               /\ resp' = NoResp
               /\ UNCHANGED <<jobs, req, timers, activeJobs>>
          ELSE LET body == req[h].body
                   r == startJob(timers, activeJobs, body.id, body.url, body.schedule,
                                 body.cronSecret)
               IN /\ timers' = r.timers
                  /\ activeJobs' = r.activeJobs
                  /\ Finish(h, [status |-> 500, req |-> req[h], error |-> "write failed"])
                  /\ UNCHANGED file
  /\ UNCHANGED <<initpc, initjobs, inflight, reqLeft, firesLeft,
                 uncaught, afterFail, delAcked, API_KEY>>

\* the write of saveJobs settles: the file holds the handler's jobs, or the
\* write failed and the catch answers 500
PostSave(h) ==
  /\ pc[h] = "post_save"
  /\ \E writeOk \in BOOLEAN :
       /\ ioFailed' = (ioFailed \/ ~writeOk)
       /\ IF writeOk
          THEN /\ file' = Stringify(jobs[h])
               /\ pc' = [pc EXCEPT ![h] = "post_start"]
               /\ resp' = NoResp
               /\ UNCHANGED <<jobs, req>>
          ELSE /\ Finish(h, [status |-> 500, req |-> req[h], error |-> "write failed"])
               /\ UNCHANGED file
  /\ UNCHANGED <<timers, activeJobs, initpc, initjobs, inflight, reqLeft, firesLeft,
                 uncaught, afterFail, delAcked, API_KEY>>

\* after await saveJobs: startJob(...), then the 200 (or the catch's 500)
PostStart(h) ==
  /\ pc[h] = "post_start"
  /\ LET body == req[h].body
         r == startJob(timers, activeJobs, body.id, body.url, body.schedule,
                       body.cronSecret)
         stored == Lookup(jobs[h], body.id)
     IN /\ timers' = r.timers
        /\ activeJobs' = r.activeJobs
        /\ Finish(h, IF r.threw
                     THEN [status |-> 500, req |-> req[h], error |-> "schedule failed"]
                     ELSE [status |-> 200, req |-> req[h],
                           job |-> [id |-> body.id, url |-> body.url,
                                    schedule |-> body.schedule,
                                    createdAt |-> stored.createdAt,
                                    createdBy |-> stored.createdBy]])
  /\ UNCHANGED <<file, initpc, initjobs, inflight, reqLeft, firesLeft, uncaught, afterFail,
                 delAcked,
                 ioFailed, API_KEY>>

\* ------------------------------------------------------- DELETE /jobs/:id
\* const jobs = await loadJobs()
DelLoad(h) ==
  /\ Accept(h)
  /\ \E id \in Ids, readOk \in BOOLEAN, apiKey \in ApiKeys :
      /\ apiKeyMiddleware(apiKey)
      /\ req' = [req EXCEPT ![h] = [kind |-> "DELETE", id |-> id, apiKey |-> apiKey,
                                    readOk |-> readOk]]
      /\ jobs' = [jobs EXCEPT ![h] = loadJobs(readOk)]
      /\ pc' = [pc EXCEPT ![h] = "del_check"]
      /\ resp' = NoResp
      /\ ioFailed' = (ioFailed \/ ~readOk)
      /\ UNCHANGED <<file, timers, activeJobs, initpc, initjobs, inflight, firesLeft,
                     uncaught, afterFail, delAcked, API_KEY>>

\* a DELETE that stops and forgets the task before it looks the id up
DelCheckStopFirst(h) ==
  /\ pc[h] = "del_check"
  /\ LET id == req[h].id IN
       /\ timers' = [t \in 1..Len(timers) |->
                       IF t = activeJobs[id] THEN [timers[t] EXCEPT !.stopped = TRUE]
                       ELSE timers[t]]
       /\ activeJobs' = [activeJobs EXCEPT ![id] = 0]
       /\ IF ~HasKey(jobs[h], id)
          THEN Finish(h, [status |-> 404, req |-> req[h], error |-> "Job not found"])
          ELSE /\ jobs' = [jobs EXCEPT ![h] = DeleteKey(jobs[h], id)]
               /\ pc' = [pc EXCEPT ![h] = "del_save"]
               /\ resp' = NoResp
               /\ UNCHANGED req
  /\ UNCHANGED <<file, initpc, initjobs, inflight, reqLeft, firesLeft, uncaught,
                 afterFail, delAcked, ioFailed, API_KEY>>

\* a DELETE that never answers 404: it deletes and saves whatever it loaded
DelCheckNoLookup(h) ==
  /\ pc[h] = "del_check"
  /\ LET id == req[h].id IN
       /\ timers' = StopExisting(timers, activeJobs, id)
       /\ activeJobs' = [activeJobs EXCEPT ![id] = 0]
       /\ jobs' = [jobs EXCEPT ![h] = DeleteKey(jobs[h], id)]
       /\ pc' = [pc EXCEPT ![h] = "del_save"]
       /\ resp' = NoResp
       /\ UNCHANGED req
  /\ UNCHANGED <<file, initpc, initjobs, inflight, reqLeft, firesLeft, uncaught,
                 afterFail, delAcked, ioFailed, API_KEY>>

\* if (!jobs[id]) 404; else stop and forget the task, delete jobs[id], saveJobs issued
DelCheck(h) ==
  /\ pc[h] = "del_check"
  /\ LET id == req[h].id IN
       IF ~HasKey(jobs[h], id)
       THEN /\ Finish(h, [status |-> 404, req |-> req[h], error |-> "Job not found"])
            /\ UNCHANGED <<timers, activeJobs>>
       ELSE /\ timers' = StopExisting(timers, activeJobs, id)
            /\ activeJobs' = [activeJobs EXCEPT ![id] = 0]
            /\ jobs' = [jobs EXCEPT ![h] = DeleteKey(jobs[h], id)]
            /\ pc' = [pc EXCEPT ![h] = "del_save"]
            /\ resp' = NoResp
            /\ UNCHANGED req
  /\ UNCHANGED <<file, initpc, initjobs, inflight, reqLeft, firesLeft, uncaught,
                 afterFail, delAcked,
                 ioFailed, API_KEY>>

\* the write of saveJobs settles, or fails and the catch answers 500
DelSave(h) ==
  /\ pc[h] = "del_save"
  /\ \E writeOk \in BOOLEAN :
       /\ ioFailed' = (ioFailed \/ ~writeOk)
       /\ IF writeOk
          THEN /\ file' = Stringify(jobs[h])
               /\ pc' = [pc EXCEPT ![h] = "del_respond"]
               /\ jobs' = [jobs EXCEPT ![h] = << >>]
               /\ resp' = NoResp
               /\ UNCHANGED req
          ELSE /\ Finish(h, [status |-> 500, req |-> req[h], error |-> "write failed"])
               /\ UNCHANGED file
  /\ UNCHANGED <<timers, activeJobs, initpc, initjobs, inflight, reqLeft, firesLeft,
                 uncaught, afterFail, delAcked, API_KEY>>

\* res.json({ message: "Job deleted successfully" })
DelRespond(h) ==
  /\ pc[h] = "del_respond"
  /\ Finish(h, [status |-> 200, req |-> req[h]])
  /\ delAcked' = delAcked \cup {req[h].id}
  /\ UNCHANGED <<file, timers, activeJobs, initpc, initjobs, inflight, reqLeft,
                 firesLeft, uncaught, afterFail,
                 ioFailed, API_KEY>>

\* ---------------------------------------------------------------- GET /jobs
\* const { cronSecret, ...safeJob } = job
SafeJob(job) == [k \in DOMAIN job \ {"cronSecret"} |-> job[k]]

sanitizedJobs(js) == [i \in 1..Len(js) |-> [id |-> js[i].id, job |-> SafeJob(js[i].job)]]

GetJobs ==
  \E readOk \in BOOLEAN, apiKey \in ApiKeys :
    /\ apiKeyMiddleware(apiKey)
    /\ resp' = [status |-> 200,
                req |-> [kind |-> "GET", apiKey |-> apiKey, readOk |-> readOk],
                list |-> sanitizedJobs(loadJobs(readOk))]
    /\ ioFailed' = (ioFailed \/ ~readOk)
    /\ UNCHANGED <<file, timers, activeJobs, pc, req, jobs, initpc, initjobs,
                   inflight, reqLeft, firesLeft, uncaught, afterFail, delAcked, API_KEY>>

\* -------------------------------------------------------------- GET /health
\* activeJobs.size: the number of keys the Map holds
size(aj) == Cardinality({id \in Ids : aj[id] # 0})

\* res.json({ status: "healthy", ..., activeJobs: activeJobs.size }); the route
\* is registered without the middleware
GetHealth ==
  /\ resp' = [status |-> 200, req |-> [kind |-> "HEALTH"],
              activeJobs |-> size(activeJobs)]
  /\ UNCHANGED <<file, timers, activeJobs, pc, req, jobs, initpc, initjobs,
                 inflight, reqLeft, firesLeft, uncaught, afterFail, delAcked,
                 ioFailed, API_KEY>>

\* ------------------------------------------------------ fires and deliveries
\* node-cron runs a task's callback at a matching time only while the task is
\* not stopped
CanFire(t) == t \in 1..Len(timers) /\ ~timers[t].stopped

\* the template literal `Bearer ${cronSecret}`
Bearer(cronSecret) == <<"Bearer ", cronSecret>>

\* a callback that sets Authorization whatever the secret is
HeadersAlwaysAuth(cronSecret) ==
  [ContentType |-> "application/json", Authorization |-> Bearer(cronSecret)]

\* the headers the callback builds
Headers(cronSecret) ==
  IF Truthy(cronSecret)
  THEN [ContentType |-> "application/json", Authorization |-> Bearer(cronSecret)]
  ELSE [ContentType |-> "application/json"]

\* a name for the new delivery of task t: the least number no pending one has
FreeSlot(t) ==
  CHOOSE n \in 1..MaxFires + 1 :
    /\ ~\E d \in inflight : d.timer = t /\ d.n = n
    /\ \A m \in 1..n - 1 : \E d \in inflight : d.timer = t /\ d.n = m

\* a task that waits for its pending delivery before it fires again
FireAfterDelivery(t) ==
  /\ CanFire(t)
  /\ ~\E d \in inflight : d.timer = t
  /\ firesLeft > 0
  /\ firesLeft' = firesLeft - 1
  /\ inflight' = inflight \cup
       {[timer |-> t, n |-> FreeSlot(t), method |-> "POST", url |-> timers[t].url,
         headers |-> Headers(timers[t].cronSecret)]}
  /\ afterFail' = IF afterFail.timer = t THEN [afterFail EXCEPT !.fired = TRUE]
                  ELSE afterFail
  /\ resp' = NoResp
  /\ UNCHANGED <<file, timers, activeJobs, pc, req, jobs, initpc, initjobs,
                 reqLeft, uncaught, delAcked, ioFailed, API_KEY>>

\* the task's callback runs up to its await: one fetch is issued
Fire(t) ==
  /\ CanFire(t)
  /\ firesLeft > 0
  /\ firesLeft' = firesLeft - 1
  /\ inflight' = inflight \cup
       {[timer |-> t, n |-> FreeSlot(t), method |-> "POST", url |-> timers[t].url,
         headers |-> Headers(timers[t].cronSecret)]}
  /\ afterFail' = IF afterFail.timer = t THEN [afterFail EXCEPT !.fired = TRUE]
                  ELSE afterFail
  /\ resp' = NoResp
  /\ UNCHANGED <<file, timers, activeJobs, pc, req, jobs, initpc, initjobs,
                 reqLeft, uncaught, delAcked,
                 ioFailed, API_KEY>>

Outcomes == {"2xx", "non2xx", "throws"}
Failed(outcome) == outcome # "2xx"

\* a callback that stops its task when the delivery fails
DeliveryDoneStopsOnFail(d, outcome) ==
  /\ d \in inflight
  /\ inflight' = inflight \ {d}
  /\ afterFail' = IF Failed(outcome) THEN [timer |-> d.timer, fired |-> FALSE]
                  ELSE afterFail
  /\ timers' = IF Failed(outcome) THEN [timers EXCEPT ![d.timer].stopped = TRUE]
               ELSE timers
  /\ uncaught' = uncaught
  /\ resp' = NoResp
  /\ UNCHANGED <<file, activeJobs, pc, req, jobs, initpc, initjobs,
                 reqLeft, firesLeft, delAcked, ioFailed, API_KEY>>

\* the fetch settles: the status is logged, or the catch logs the error; the
\* callback's promise resolves either way
DeliveryDone(d, outcome) ==
  /\ d \in inflight
  /\ inflight' = inflight \ {d}
  /\ afterFail' = IF Failed(outcome) THEN [timer |-> d.timer, fired |-> FALSE]
                  ELSE afterFail
  /\ uncaught' = uncaught
  /\ resp' = NoResp
  /\ UNCHANGED <<file, timers, activeJobs, pc, req, jobs, initpc, initjobs,
                 reqLeft, firesLeft, delAcked,
                 ioFailed, API_KEY>>

\* -------------------------------------------------------------------- Next
\* startup replay and the requests that change the file or the tasks
NextAPI ==
  \/ InitLoad
  \/ InitStart
  \/ \E h \in Handlers : PostLoad(h)
  \/ \E h \in Handlers : PostSave(h)
  \/ \E h \in Handlers : PostStart(h)
  \/ \E h \in Handlers : DelLoad(h)
  \/ \E h \in Handlers : DelCheck(h)
  \/ \E h \in Handlers : DelSave(h)
  \/ \E h \in Handlers : DelRespond(h)

\* the same with the tasks firing and their deliveries settling
Next ==
  \/ NextAPI
  \/ \E t \in 1..Len(timers) : Fire(t)
  \/ \E d \in inflight, outcome \in Outcomes : DeliveryDone(d, outcome)

\* the same with the requests that only answer: a refused key, a rejected
\* POST, a GET, a health check
NextRead ==
  \/ NextAPI
  \/ Unauthorized
  \/ PostReject
  \/ GetJobs
  \/ GetHealth

Spec == Init /\ [][Next]_vars

SpecAPI == InitAPI /\ [][NextAPI]_vars

SpecRead == InitRead /\ [][NextRead]_vars

\* ================================================================= claims
\* the tasks of an id that are live: created and not stopped
LiveTimers(id) == {t \in 1..Len(timers) : timers[t].id = id /\ ~timers[t].stopped}

\* no handler and no startup replay is mid-execution
Quiescent == (\A h \in Handlers : pc[h] = "idle") /\ initpc = "done"

\* C1: in every reachable state, whatever the interleaving of POST /jobs,
\* DELETE /jobs/:id and the startup replay, each job id has at most one live
\* (created and not stopped) task.
C1_AtMostOneLiveTimer == \A id \in Ids : Cardinality(LiveTimers(id)) <= 1

\* C1's case: an id was registered twice; its first task is stopped, its second is live
C1_Witness ==
  \E t1, t2 \in 1..Len(timers) :
    /\ t1 < t2 /\ timers[t1].id = timers[t2].id
    /\ timers[t1].stopped /\ ~timers[t2].stopped

\* the id whose startJob throws in a replay of js: the first rejected schedule
FirstRejected(js) ==
  LET bad == {i \in 1..Len(js) : ~validate(Get(js[i].job, "schedule"))}
  IN IF bad = {} THEN Undefined
     ELSE js[CHOOSE i \in bad : \A j \in bad : i <= j].id

\* C3 (as claimed): a startJob whose schedule fails parsing leaves the task that
\* was running for the id live, and the failure reaches startJob's caller; on the
\* replay path and on the POST path.
C3_ParseFailureKeepsOldTimer ==
  [][/\ (initpc = "loaded" /\ initpc' # "loaded" /\ FirstRejected(initjobs) # Undefined)
        => /\ initpc' = "failed"
           /\ \A t \in LiveTimers(FirstRejected(initjobs)) : ~timers'[t].stopped
     /\ \A h \in Handlers :
          (pc[h] = "post_start" /\ pc'[h] = "idle" /\ ~validate(req[h].body.schedule))
          => /\ resp'.status = 500
             /\ \A t \in LiveTimers(req[h].body.id) : ~timers'[t].stopped]_vars

\* C4 (as claimed): whenever no handler and no replay is mid-execution and no
\* read or write of the file has failed, the ids with a live task in activeJobs
\* are exactly the ids in the persisted mapping.
C4_RegistryMatchesTimers ==
  (Quiescent /\ ~ioFailed) =>
    {id \in Ids : activeJobs[id] # 0 /\ ~timers[activeJobs[id]].stopped} = KeysOf(file)

\* C9 (as claimed): once DELETE /jobs/:id has answered 200 for an id, and until a
\* later POST /jobs for it arrives, the id has no live task and no persisted
\* record, whatever POST or replay interleaved with the DELETE.
C9_DeletedStaysDeleted ==
  \A id \in delAcked : LiveTimers(id) = {} /\ id \notin KeysOf(file)

C2_OnlyCurrentTimerDelivers ==
  [][\A d \in inflight' \ inflight :
       LET id == timers[d.timer].id IN
         /\ activeJobs[id] = d.timer
         /\ ~timers[d.timer].stopped
         /\ d.url = timers[activeJobs[id]].url
         /\ d.headers = Headers(timers[activeJobs[id]].cronSecret)]_vars

\* C2's case: an id was re-registered with another schedule, url and secret; the
\* replaced task is stopped and a delivery of the new task is out
C2_Witness ==
  \E d \in inflight : \E old \in 1..Len(timers) :
    /\ old < d.timer
    /\ timers[old].id = timers[d.timer].id
    /\ timers[old].stopped
    /\ timers[old].schedule # timers[d.timer].schedule
    /\ timers[old].url # d.url
    /\ activeJobs[timers[old].id] = d.timer

\* the body passes the POST handler's three validations
BodyAcceptable(body) ==
  /\ body.id \notin {Undefined, ""} /\ body.url \notin {Undefined, ""}
  /\ body.schedule \in {EveryMinute, EveryFive}
  /\ body.url \in GoodUrls

\* C5: a POST /jobs whose body fails validation is answered 400 and changes
\* neither the file nor any task nor activeJobs; no handler goes on with such a
\* body, and the record a POST writes under its id has a valid schedule.
C5_InvalidPostChangesNothing ==
  [][/\ \A h \in Handlers :
          (req'[h] # req[h] /\ req'[h].kind = "POST") => BodyAcceptable(req'[h].body)
     /\ (resp'.status = 400 /\ resp' # resp)
          => /\ ~BodyAcceptable(resp'.req.body)
             /\ file' = file /\ timers' = timers /\ activeJobs' = activeJobs
             /\ pc' = pc
     /\ \A h \in Handlers :
          (pc[h] = "post_save" /\ pc'[h] = "post_start")
          => Get(Lookup(file', req[h].body.id), "schedule") \in {EveryMinute, EveryFive}]_vars

\* C5's case: a POST with a rejected schedule for an id that is persisted and
\* has a live task has just been answered 400
C5_Witness ==
  /\ resp.status = 400
  /\ resp.req.body.schedule = BadSchedule
  /\ resp.req.body.id \in KeysOf(file)
  /\ LiveTimers(resp.req.body.id) # {}

\* C6 (as claimed): the list GET /jobs returns has one entry per persisted id,
\* and no entry has a cronSecret field.
C6_ListShowsEveryJobWithoutSecret ==
  (resp.req.kind = "GET" /\ resp.status = 200) =>
    /\ {resp.list[i].id : i \in 1..Len(resp.list)} = KeysOf(file)
    /\ \A i \in 1..Len(resp.list) : "cronSecret" \notin DOMAIN resp.list[i].job

\* C7: the settling of a delivery, failed ones included, changes no task, not
\* activeJobs and not the file, and lets no error out of the callback; the task
\* whose delivery failed can fire again for as long as it is not stopped.
C7_FailedDeliveryKeepsJob ==
  /\ [][Cardinality(inflight') < Cardinality(inflight)
        => /\ timers' = timers /\ activeJobs' = activeJobs /\ file' = file
           /\ ~uncaught']_vars
  /\ [](\A t \in 1..Len(timers) :
          (afterFail.timer = t /\ ~timers[t].stopped /\ firesLeft > 0)
          => ENABLED Fire(t))

\* C7's case: a delivery of a task failed and the task has fired again since
C7_Witness ==
  /\ afterFail.timer # 0
  /\ afterFail.fired
  /\ ~timers[afterFail.timer].stopped

\* C8: while a delivery is pending, every task that is not stopped can fire, the
\* task with the pending delivery included, every step of a POST or DELETE
\* handler can be taken, and a request with the configured key is accepted.
C8_PendingDeliveryBlocksNothing ==
  inflight # {} =>
    /\ \A t \in 1..Len(timers) : (~timers[t].stopped /\ firesLeft > 0) => ENABLED Fire(t)
    /\ \A h \in Handlers :
         /\ pc[h] = "post_save" => ENABLED PostSave(h)
         /\ pc[h] = "post_start" => ENABLED PostStart(h)
         /\ pc[h] = "del_check" => ENABLED DelCheck(h)
         /\ pc[h] = "del_save" => ENABLED DelSave(h)
         /\ pc[h] = "del_respond" => ENABLED DelRespond(h)
    /\ (reqLeft > 0 /\ pc[1] = "idle" /\ Truthy(API_KEY)) =>
         ENABLED PostLoad(1) /\ ENABLED DelLoad(1)

\* C8's case: a task fired again while its previous delivery was still pending,
\* and a request was served to its end meanwhile
C8_Witness ==
  /\ \E d1, d2 \in inflight : d1.timer = d2.timer /\ d1.n # d2.n
  /\ resp.status = 200

C12_FailedReadOrWriteAnswers500 ==
  [][\A h \in Handlers :
       /\ (pc[h] # "idle" /\ pc'[h] = "idle" /\ ~req[h].readOk)
            => resp'.status = 500
       /\ (pc[h] \in {"post_save", "del_save"} /\ pc'[h] = "idle")
            => /\ resp'.status = 500
               /\ timers' = timers /\ activeJobs' = activeJobs]_vars

\* C13: when the replay's forEach has ended, every id of the mapping it loaded
\* has a task in activeJobs that is not stopped and carries the url, schedule
\* and cronSecret of that id's loaded record.
C13_ReplayArmsEveryLoadedJob ==
  [][(initpc = "loaded" /\ initpc' # "loaded")
       => \A i \in 1..Len(initjobs) :
            LET id == initjobs[i].id
                job == initjobs[i].job
            IN /\ activeJobs'[id] # 0
               /\ ~timers'[activeJobs'[id]].stopped
               /\ timers'[activeJobs'[id]].url = Get(job, "url")
               /\ timers'[activeJobs'[id]].schedule = Get(job, "schedule")
               /\ timers'[activeJobs'[id]].cronSecret = Get(job, "cronSecret")]_vars

\* C14: the count a GET /health answers is the number of ids that have a task
\* that is not stopped.
C14_HealthCountsLiveTimers ==
  resp.req.kind = "HEALTH" =>
    resp.activeJobs = Cardinality({id \in Ids : LiveTimers(id) # {}})

\* the header is there and is the configured key
KeyAccepted(apiKey) == apiKey \notin {Undefined, ""} /\ apiKey = API_KEY

\* the requests behind the middleware
Guarded == {"POST", "GET", "DELETE"}

\* C15: a handler body starts only for a request whose x-api-key is there and is
\* the configured key, and only such a request gets an answer other than 401;
\* the 401 carries an error and no job data and its step changes neither the
\* file nor any task nor activeJobs nor any handler.
C15_BadKeyIs401AndChangesNothing ==
  [][/\ \A h \in Handlers :
          (pc[h] = "idle" /\ pc'[h] # "idle") => KeyAccepted(req'[h].apiKey)
     /\ (resp'.req.kind \in Guarded /\ ~KeyAccepted(resp'.req.apiKey))
          => /\ resp'.status = 401
             /\ DOMAIN resp' = {"status", "req", "error"}
             /\ UNCHANGED <<file, timers, activeJobs, pc, req, jobs>>
     /\ (resp'.req.kind \in Guarded /\ resp'.status # 401)
          => KeyAccepted(resp'.req.apiKey)]_vars

\* C15's case: no key is configured, the replay has armed a persisted job, and a
\* request without the header was answered 401
C15_Witness ==
  /\ resp.status = 401
  /\ resp.req.apiKey = Undefined
  /\ API_KEY = Undefined
  /\ file # << >>
  /\ \E id \in Ids : LiveTimers(id) # {}

\* C16: a fire issues exactly one request; it is a POST to the url of the task
\* that fired, with Content-Type application/json, and it has an Authorization
\* header exactly when the task's secret is neither absent nor empty, which is
\* then "Bearer " followed by the secret.
C16_FireIssuesOnePost ==
  [][firesLeft' # firesLeft
       => /\ Cardinality(inflight' \ inflight) = 1
          /\ inflight \subseteq inflight'
          /\ \A d \in inflight' \ inflight :
               LET secret == timers[d.timer].cronSecret IN
                 /\ d.method = "POST"
                 /\ d.url = timers[d.timer].url
                 /\ d.headers.ContentType = "application/json"
                 /\ DOMAIN d.headers \subseteq {"ContentType", "Authorization"}
                 /\ "Authorization" \in DOMAIN d.headers
                      <=> secret \notin {Undefined, ""}
                 /\ "Authorization" \in DOMAIN d.headers
                      => d.headers.Authorization = <<"Bearer ", secret>>]_vars

\* C16's case: a task whose secret is the empty string has a delivery out
\* without Authorization, and a task with a secret has one out with it
C16_Witness ==
  /\ \E d \in inflight :
       /\ timers[d.timer].cronSecret = ""
       /\ "Authorization" \notin DOMAIN d.headers
  /\ \E d \in inflight :
       /\ timers[d.timer].cronSecret = "k1"
       /\ d.headers.Authorization = <<"Bearer ", "k1">>

\* C17: a POST handler reaches startJob only from a write that succeeded and
\* left its mapping in the file, and no other step of a POST handler touches a
\* task or activeJobs; a POST whose write fails is answered 500 and leaves
\* every task and activeJobs as they were.
C17_PostPersistsBeforeItSchedules ==
  [][\A h \in Handlers :
       /\ (pc[h] # "post_start" /\ pc'[h] = "post_start")
            => /\ pc[h] = "post_save"
               /\ file' = Stringify(jobs[h])
       /\ (pc'[h] # pc[h] /\ pc[h] # "post_start"
             /\ (req[h].kind = "POST" \/ req'[h].kind = "POST"))
            => (timers' = timers /\ activeJobs' = activeJobs)
       /\ (pc[h] = "post_save" /\ pc'[h] = "idle")
            => /\ resp'.status = 500
               /\ file' = file
               /\ timers' = timers /\ activeJobs' = activeJobs]_vars

\* C17's case: the write of a POST failed for an id that has a live task with
\* another url; the task is still live and is the one activeJobs holds
C17_Witness ==
  /\ resp.status = 500
  /\ resp.req.kind = "POST"
  /\ resp.error = "write failed"
  /\ \E t \in LiveTimers(resp.req.body.id) :
       /\ timers[t].url # resp.req.body.url
       /\ activeJobs[resp.req.body.id] = t

\* the records of every id but x are the same in mappings f and g
SameButFor(f, g, x) ==
  \A id \in Ids \ {x} : HasKey(f, id) = HasKey(g, id) /\ Lookup(f, id) = Lookup(g, id)

\* C18: the write of a POST for an id leaves the persisted record of every
\* other id as it was, and the write of a DELETE for an id removes that id's
\* record and leaves every other record as it was.
C18_WriteChangesOnlyItsId ==
  [][\A h \in Handlers :
       /\ (pc[h] = "post_save" /\ pc'[h] = "post_start")
            => SameButFor(file, file', req[h].body.id)
       /\ (pc[h] = "del_save" /\ pc'[h] = "del_respond")
            => /\ SameButFor(file, file', req[h].id)
               /\ ~HasKey(file', req[h].id)]_vars

\* C19: whenever no handler and no replay is mid-execution, every task that is
\* not stopped has a persisted record under its id, and its url, schedule and
\* cronSecret are that record's. Stated for the runs in which no read and no
\* write of the file has failed, where it fails all the same.
C19_LiveTimerRunsPersistedRecord ==
  (Quiescent /\ ~ioFailed) =>
    \A t \in 1..Len(timers) :
      ~timers[t].stopped =>
        /\ HasKey(file, timers[t].id)
        /\ timers[t].url = Get(Lookup(file, timers[t].id), "url")
        /\ timers[t].schedule = Get(Lookup(file, timers[t].id), "schedule")
        /\ timers[t].cronSecret = Get(Lookup(file, timers[t].id), "cronSecret")

=============================================================================
